---------------------------- MODULE Spec2Model ----------------------------
(***************************************************************************)
(* fastdedup: the two-pass reflink deduplicator.                           *)
(*                                                                         *)
(* Two state machines share this module:                                   *)
(*   Spec      pass 2, Dedup / processFile / dedupFile over a directory of *)
(*             regular files (paths, inodes, extents, content, metadata);  *)
(*   SpecHist  pass 1's bounded histogram, SizeMap.Add / evict / TopN.     *)
(* Each leaves the other's variables alone.                                *)
(***************************************************************************)
EXTENDS Integers, Sequences, FiniteSets, TLC

(***************************************************************************)
(* Bounds of the model.                                                    *)
(***************************************************************************)
\* Environment failures (a syscall the code checks returning an error)
\* injected along one behaviour.
MaxFaults == 1
\* Bytes per read of filesEqual, scaled down from 256 KiB so that files of
\* one and of several chunks both occur.
chunkSize == 2
\* Width of the model's signed integers, scaled down from Go's int64.
IntBits == 7
\* Largest capacity a SizeMap is created with.
MaxM == 3
\* Calls of Add in one behaviour.
MaxAdds == 5
\* Largest n given to TopN.
MaxN == 3
\* A capacity large enough for evict to delete more than one entry; a map
\* of this capacity starts full.
BigM == 20

Min2(a, b) == IF a < b THEN a ELSE b

(***************************************************************************)
(* The directory.  The walker lists it once per pass; paths are strings so *)
(* that dst + ".dedup-tmp" and len(path) are computed as the code does.    *)
(***************************************************************************)
tmpPath(dst) == dst \o ".dedup-tmp"

InitPaths == {"p", "qq", "qq.dedup-tmp"}
AllPaths == InitPaths \cup {tmpPath(q) : q \in InitPaths}

\* File contents are byte sequences; a file's size is its length.
Contents == {<<1, 1, 1>>, <<1, 1, 2>>, <<3>>}
FileSizes == {Len(c) : c \in Contents}

\* Inode numbers; 0 in a directory entry means "no such file".  One more
\* than the files of the tree: a replace holds the backup and the new file.
Inos == 1 .. (Cardinality(InitPaths) + 1)

\* Metadata tokens (mode, owner, mtime): an original file's attributes are
\* its inode number; 0 stands for what a file made or written by this
\* process gets (the process's owner, the current time, a masked mode).
Extent(phys, len) == [Logical |-> 0, Physical |-> phys, Length |-> len, Flags |-> 1]
ExtentsOf(phys, len) == IF len = 0 THEN <<>> ELSE <<Extent(phys, len)>>

FreeInode == [data |-> <<>>, extents |-> <<>>, mode |-> 0, owner |-> 0, mtime |-> 0]

ZeroStats == [BytesSaved |-> 0, FilesDeduped |-> 0, AlreadyDeduped |-> 0, Errors |-> 0]

NoCall == [src |-> "", dst |-> "", size |-> 0, mode |-> 0, owner |-> 0, mtime |-> 0,
           fs |-> <<>>, inode |-> <<>>]

VARIABLES
    fs,         \* path -> inode number, 0 when the path does not exist
    inode,      \* inode number -> [data, extents, mode, owner, mtime]
    targetSet,  \* Dedup: the sizes selected for pass 2
    dryRun,     \* Dedup: the dry-run flag
    groups,     \* Dedup: size -> sequence of fileRef [path, extents]
    stats,      \* Dedup: DedupStats
    todo,       \* walkRandom: directory entries listed and not yet visited
    pc,         \* where pass 2 stands
    call,       \* dedupFile: src, dst, the captured stat, the state at entry
    result,     \* what the last dedupFile call returned ("none" before)
    faults,     \* environment failures injected so far
    run,        \* 1 in the first Dedup pass, 2 in the pass run after it
    start,      \* the file system when the current pass began
    prev,       \* the first pass's stats and fault count, once it ended
    listed,     \* walkRandom: os.ReadDir(root) succeeds
    linux,      \* the build: platform_linux.go, or the stubs of other systems
    exitCode,   \* main: the status the process exits with, -1 while it runs
    log,        \* processFile: the calls of this pass that got past getExtents
    sm,         \* SizeMap.m: size -> count, 0 when the size is not stored
    maxSize,    \* SizeMap.maxSize
    adds,       \* Add calls made in this behaviour
    added,      \* size -> Add(size) calls made since NewSizeMap
    since,      \* size -> Add(size) calls made since the size was last evicted
    lastAdd,    \* the last Add: its size, the map after sm.m[size]++, the evicted
    top         \* the last TopN: its n and the list returned

fsVars == <<fs, inode, targetSet, dryRun, groups, stats, todo, pc, call, result,
            faults, run, start, prev, listed, linux, exitCode, log>>
histVars == <<sm, maxSize, adds, added, since, lastAdd, top>>
vars == <<fsVars, histVars>>

(***************************************************************************)
(* Platform adapter and file system calls, as functions of the directory f *)
(* and the inode table ino.                                                *)
(***************************************************************************)
\* Inodes no directory entry names are freed.
Collect(f, ino) ==
    [i \in Inos |-> IF \E q \in DOMAIN f : f[q] = i THEN ino[i] ELSE FreeInode]

\* The lowest unused inode number.
NewIno(f) == CHOOSE i \in Inos : (\A q \in DOMAIN f : f[q] # i)
                                  /\ \A j \in Inos : (\A q \in DOMAIN f : f[q] # j) => i <= j

\* A physical offset no file and no cached extent list holds.
PhysOf(exts) == {exts[k].Physical : k \in 1 .. Len(exts)}
UsedPhys(ino, grp) ==
    UNION {PhysOf(ino[i].extents) : i \in Inos}
    \cup UNION {UNION {PhysOf(grp[s][k].extents) : k \in 1 .. Len(grp[s])} : s \in DOMAIN grp}
NewPhys(ino, grp) ==
    CHOOSE d \in 1 .. (2 * Cardinality(Inos) + 1) :
        /\ d \notin UsedPhys(ino, grp)
        /\ \A e \in 1 .. (2 * Cardinality(Inos) + 1) : e \notin UsedPhys(ino, grp) => d <= e

SameExtents(a, b) ==
    /\ Len(a) = Len(b)
    /\ \A i \in 1 .. Len(a) : a[i].Physical = b[i].Physical /\ a[i].Length = b[i].Length

\* getExtents: the open fails on a missing path; otherwise the extent map.
\* The stub of other systems returns (nil, errUnsupported).
getExtents(f, ino, path) ==
    IF ~linux \/ f[path] = 0 THEN [err |-> TRUE, extents |-> <<>>]
    ELSE [err |-> FALSE, extents |-> ino[f[path]].extents]

\* sameInode: a failed stat yields (false, err), and callers drop the error;
\* so does the stub of other systems.
sameInode(f, a, b) == linux /\ f[a] # 0 /\ f[b] # 0 /\ f[a] = f[b]

\* filesEqual's loop from offset off: ReadFull fills chunkSize bytes or
\* reports EOF with what it got.
RECURSIVE readLoop(_, _, _)
readLoop(da, db, off) ==
    LET nA == Min2(chunkSize, Len(da) - off)
        nB == Min2(chunkSize, Len(db) - off)
        eofA == nA < chunkSize
        eofB == nB < chunkSize
    IN  IF nA # nB \/ SubSeq(da, off + 1, off + nA) # SubSeq(db, off + 1, off + nB)
        THEN FALSE
        ELSE IF eofA /\ eofB THEN TRUE
        ELSE IF eofA # eofB THEN FALSE
        ELSE readLoop(da, db, off + chunkSize)

\* filesEqual: "err" when either open fails, else "equal" or "differ".
filesEqual(f, ino, pathA, pathB) ==
    IF f[pathA] = 0 \/ f[pathB] = 0 THEN "err"
    ELSE IF readLoop(ino[f[pathA]].data, ino[f[pathB]].data, 0) THEN "equal"
    ELSE "differ"

\* os.Rename: fails when oldpath is missing; does nothing when both names
\* are links to one inode; otherwise newpath names oldpath's file, whatever
\* newpath named before.
Rename(f, old, new) ==
    IF f[old] = 0 THEN [ok |-> FALSE, fs |-> f]
    ELSE IF f[old] = f[new] THEN [ok |-> TRUE, fs |-> f]
    ELSE [ok |-> TRUE, fs |-> [f EXCEPT ![new] = f[old], ![old] = 0]]

\* os.Remove of a file: the entry goes; a missing path is an error.
Remove(f, path) == [f EXCEPT ![path] = 0]

\* The rollback closure of dedupFile: both results are discarded.
rollback(f, dst, tmp) == Rename(Remove(f, dst), tmp, dst).fs

(***************************************************************************)
(* Initial trees: every way to place files at InitPaths, with hard links   *)
(* (two paths, one inode) and earlier reflinks (two inodes, one extent     *)
(* list).  Inode numbers are handed out in path order.                     *)
(***************************************************************************)
PathSeq == <<"p", "qq", "qq.dedup-tmp">>

MaxBelow(g, i) == IF i = 1 THEN 0
                  ELSE CHOOSE n \in 0 .. Len(PathSeq) :
                         /\ \E j \in 1 .. (i - 1) : g[j] = n \/ n = 0
                         /\ \A j \in 1 .. (i - 1) : g[j] <= n

Links == {g \in [1 .. Len(PathSeq) -> 0 .. Len(PathSeq)] :
            \A i \in 1 .. Len(PathSeq) : g[i] <= MaxBelow(g, i) + 1}

NumInodes(g) == MaxBelow(g, Len(PathSeq) + 1)

\* sh[n] = n: inode n has extents of its own; sh[n] = j < n: it is a
\* reflink of inode j, which has the same content.
Layouts(g) ==
    {l \in [data : [1 .. NumInodes(g) -> Contents],
            sh : [1 .. NumInodes(g) -> 1 .. Len(PathSeq)]] :
        \A n \in 1 .. NumInodes(g) :
            /\ l.sh[n] <= n
            /\ l.sh[l.sh[n]] = l.sh[n]
            /\ l.data[l.sh[n]] = l.data[n]}

TreeFs(g) == [q \in AllPaths |->
                IF \E i \in 1 .. Len(PathSeq) : PathSeq[i] = q
                THEN g[CHOOSE i \in 1 .. Len(PathSeq) : PathSeq[i] = q]
                ELSE 0]

TreeInodes(g, l) ==
    [n \in Inos |->
        IF n <= NumInodes(g)
        THEN [data |-> l.data[n], extents |-> ExtentsOf(l.sh[n], Len(l.data[n])),
              mode |-> n, owner |-> n, mtime |-> n]
        ELSE FreeInode]

\* os.ReadDir: the entries of the directory at the moment of the call.
ReadDir(f) == {q \in DOMAIN f : f[q] # 0}

\* walkRandom(root, fn): the entries fn is offered and the error returned.
\* A directory that cannot be listed is logged and nil is returned, the
\* root included; the loop over the entries ends in `return nil`.
walkRandom(f, ok) ==
    IF ~ok THEN [entries |-> {}, err |-> "nil"]
    ELSE [entries |-> ReadDir(f), err |-> "nil"]

NoAdd == [size |-> 0, mid |-> <<>>, evicted |-> {}]
NoTop == [n |-> -1, list |-> <<>>]

\* Pass 1 is not running.
HistIdle ==
    /\ sm = <<>>
    /\ maxSize = 0
    /\ adds = 0
    /\ added = <<>>
    /\ since = <<>>
    /\ lastAdd = NoAdd
    /\ top = NoTop

Init ==
    /\ \E g \in Links : \E l \in Layouts(g) :
         /\ fs = TreeFs(g)
         /\ inode = TreeInodes(g, l)
    /\ targetSet \in (SUBSET FileSizes) \ {{}}
    /\ dryRun \in BOOLEAN
    /\ groups = [s \in FileSizes |-> <<>>]
    /\ stats = ZeroStats
    /\ listed \in BOOLEAN
    /\ linux \in BOOLEAN
    /\ todo = walkRandom(fs, listed).entries
    /\ exitCode = -1
    /\ log = <<>>
    /\ pc = "walk"
    /\ call = NoCall
    /\ result = "none"
    /\ faults = 0
    /\ run = 1
    /\ start = [fs |-> fs, inode |-> inode]
    /\ prev = [stats |-> ZeroStats, faults |-> 0]
    /\ HistIdle

(***************************************************************************)
(* processFile: the three tiers, tried reference by reference.             *)
(***************************************************************************)
\* The tier at which one reference matches the candidate, 0 when none
\* does.  readErr: the environment fails this reference's filesEqual.
Tier(f, ino, ref, path, extents, readErr) ==
    IF sameInode(f, ref.path, path) THEN 1
    ELSE IF SameExtents(ref.extents, extents) THEN 2
    ELSE IF ~readErr /\ filesEqual(f, ino, ref.path, path) = "equal" THEN 3
    ELSE 0

\* The first reference, from index i on, that matches at some tier.
RECURSIVE FirstMatch(_, _, _, _, _, _, _)
FirstMatch(f, ino, refs, path, extents, ferr, i) ==
    IF i > Len(refs) THEN [tier |-> 0, idx |-> 0]
    ELSE LET t == Tier(f, ino, refs[i], path, extents, ferr = i)
         IN  IF t # 0 THEN [tier |-> t, idx |-> i]
             ELSE FirstMatch(f, ino, refs, path, extents, ferr, i + 1)

\* The shortest-path replacement of tiers 1 and 2.
updateRef(ref, path, extents) ==
    IF Len(path) < Len(ref.path) THEN [path |-> path, extents |-> extents] ELSE ref

\* The walker calls fn(path, size) and Dedup's filter lets it through.
SizeAt(q) == Len(inode[fs[q]].data)
Visited(q) == fs[q] # 0 /\ SizeAt(q) # 0 /\ SizeAt(q) \in targetSet

\* filesEqual is reached for reference k, so the environment can fail it.
CompareReached(q, k) ==
    LET m == FirstMatch(fs, inode, groups[SizeAt(q)], q,
                        getExtents(fs, inode, q).extents, 0, 1)
    IN  /\ k \in 1 .. Len(groups[SizeAt(q)])
        /\ m.idx = 0 \/ m.idx > k \/ (m.idx = k /\ m.tier = 3)
        /\ fs[groups[SizeAt(q)][k].path] # 0

\* The outcome of processFile's loop for candidate q; ferr = 0, or the
\* reference whose comparison the environment fails.
Outcome(q, ferr) ==
    FirstMatch(fs, inode, groups[SizeAt(q)], q, getExtents(fs, inode, q).extents, ferr, 1)

\* One processFile call: the candidate, its inode, and how the loop over
\* the references ended: the tier that matched and the reference's index,
\* or tier 0 and the index of the reference the candidate became.
Entry(q, tier, idx) ==
    [path |-> q, ino |-> fs[q], size |-> SizeAt(q), tier |-> tier, idx |-> idx]

Inject(ferr) ==
    /\ ferr # 0 => faults < MaxFaults
    /\ faults' = IF ferr = 0 THEN faults ELSE faults + 1

\* processFile's `if dryRun` after a tier-3 match.
dryRunBranchSkipped(dry) == FALSE

dryRunBranch(dry) == dry

\* walkRandom drops the entry (lstat fails, empty file) or Dedup filters
\* its size out.
Skip(q) ==
    /\ UNCHANGED histVars
    /\ pc = "walk" /\ q \in todo
    /\ ~Visited(q)
    /\ todo' = todo \ {q}
    /\ result' = "none"
    /\ UNCHANGED <<fs, inode, targetSet, dryRun, groups, stats, pc, call, faults,
                   run, start, prev, listed, linux, exitCode, log>>

\* getExtents on the candidate fails: processFile returns, nothing counted.
ExtentsFail(q) ==
    /\ UNCHANGED histVars
    /\ pc = "walk" /\ q \in todo
    /\ Visited(q)
    /\ getExtents(fs, inode, q).err \/ faults < MaxFaults
    /\ faults' = IF getExtents(fs, inode, q).err THEN faults ELSE faults + 1
    /\ todo' = todo \ {q}
    /\ result' = "none"
    /\ UNCHANGED <<fs, inode, targetSet, dryRun, groups, stats, pc, call, run, start, prev, listed, linux, exitCode, log>>

\* No reference matches: the candidate becomes a reference of its size.
NewRef(q) ==
    /\ UNCHANGED histVars
    /\ pc = "walk" /\ q \in todo
    /\ Visited(q) /\ ~getExtents(fs, inode, q).err
    /\ \E ferr \in 0 .. Len(groups[SizeAt(q)]) :
         /\ ferr # 0 => CompareReached(q, ferr)
         /\ Inject(ferr)
         /\ Outcome(q, ferr).tier = 0
         /\ log' = Append(log, Entry(q, 0, Len(groups[SizeAt(q)]) + 1))
    /\ groups' = [groups EXCEPT ![SizeAt(q)] =
                    Append(@, [path |-> q, extents |-> getExtents(fs, inode, q).extents])]
    /\ todo' = todo \ {q}
    /\ result' = "none"
    /\ UNCHANGED <<fs, inode, targetSet, dryRun, stats, pc, call, run, start, prev, listed, linux, exitCode>>

\* Tier 1 or tier 2: the candidate already shares storage with a reference.
AlreadyShared(q) ==
    /\ UNCHANGED histVars
    /\ pc = "walk" /\ q \in todo
    /\ Visited(q) /\ ~getExtents(fs, inode, q).err
    /\ \E ferr \in 0 .. Len(groups[SizeAt(q)]) :
         /\ ferr # 0 => CompareReached(q, ferr)
         /\ Inject(ferr)
         /\ Outcome(q, ferr).tier \in {1, 2}
         /\ log' = Append(log, Entry(q, Outcome(q, ferr).tier, Outcome(q, ferr).idx))
         /\ groups' = [groups EXCEPT ![SizeAt(q)][Outcome(q, ferr).idx] =
                         updateRef(@, q, getExtents(fs, inode, q).extents)]
    /\ stats' = [stats EXCEPT !.AlreadyDeduped = @ + 1]
    /\ todo' = todo \ {q}
    /\ result' = "none"
    /\ UNCHANGED <<fs, inode, targetSet, dryRun, pc, call, run, start, prev, listed, linux, exitCode>>

\* Tier 3 under dry-run: counted, nothing touched.
DryRunMatch(q) ==
    /\ UNCHANGED histVars
    /\ pc = "walk" /\ q \in todo
    /\ Visited(q) /\ ~getExtents(fs, inode, q).err
    /\ dryRunBranch(dryRun)
    /\ \E ferr \in 0 .. Len(groups[SizeAt(q)]) :
         /\ ferr # 0 => CompareReached(q, ferr)
         /\ Inject(ferr)
         /\ Outcome(q, ferr).tier = 3
         /\ log' = Append(log, Entry(q, 3, Outcome(q, ferr).idx))
    /\ stats' = [stats EXCEPT !.BytesSaved = @ + SizeAt(q), !.FilesDeduped = @ + 1]
    /\ todo' = todo \ {q}
    /\ result' = "none"
    /\ UNCHANGED <<fs, inode, targetSet, dryRun, groups, pc, call, run, start, prev, listed, linux, exitCode>>

\* Tier 3 otherwise: dedupFile(ref.path, path) is entered.
EnterDedup(q) ==
    /\ UNCHANGED histVars
    /\ pc = "walk" /\ q \in todo
    /\ Visited(q) /\ ~getExtents(fs, inode, q).err
    /\ ~dryRunBranch(dryRun)
    /\ \E ferr \in 0 .. Len(groups[SizeAt(q)]) :
         /\ ferr # 0 => CompareReached(q, ferr)
         /\ Inject(ferr)
         /\ Outcome(q, ferr).tier = 3
         /\ log' = Append(log, Entry(q, 3, Outcome(q, ferr).idx))
         /\ call' = [NoCall EXCEPT !.src = groups[SizeAt(q)][Outcome(q, ferr).idx].path,
                                   !.dst = q, !.size = SizeAt(q),
                                   !.fs = fs, !.inode = inode]
    /\ pc' = "dedupFile"
    /\ todo' = todo \ {q}
    /\ result' = "none"
    /\ UNCHANGED <<fs, inode, targetSet, dryRun, groups, stats, run, start, prev, listed, linux, exitCode>>

(***************************************************************************)
(* dedupFile(src, dst), one action per step.  A step the code checks can   *)
(* fail by the environment (one injected fault) or by the state itself; a  *)
(* call whose error the code discards has its outcome on the state.        *)
(***************************************************************************)
\* dedupFile returns an error; processFile counts it and returns.
ReturnError(err, f, ino) ==
    /\ fs' = f
    /\ inode' = Collect(f, ino)
    /\ result' = err
    /\ stats' = [stats EXCEPT !.Errors = @ + 1]
    /\ pc' = "walk"

\* The state fails the step (forced), or the environment does.
Failing(forced) ==
    /\ forced \/ faults < MaxFaults
    /\ faults' = IF forced THEN faults ELSE faults + 1

\* os.OpenFile(dst, O_WRONLY|O_CREATE|O_TRUNC, perm): a new empty file, or
\* the existing one cut to length 0.
OpenTrunc(f, ino, dst, perm) ==
    IF f[dst] = 0
    THEN [fs |-> [f EXCEPT ![dst] = NewIno(f)],
          inode |-> [ino EXCEPT ![NewIno(f)] =
                       [data |-> <<>>, extents |-> <<>>, mode |-> perm, owner |-> 0, mtime |-> 0]]]
    ELSE [fs |-> f,
          inode |-> [ino EXCEPT ![f[dst]] = [@ EXCEPT !.data = <<>>, !.extents = <<>>, !.mtime = 0]]]

\* FICLONE: dst's inode takes src's content; shared: on src's extents.
Ficlone(f, ino, src, dst, phys) ==
    [ino EXCEPT ![f[dst]] =
        [@ EXCEPT !.data = ino[f[src]].data,
                  !.extents = IF phys = 0 THEN ino[f[src]].extents
                              ELSE ExtentsOf(phys, Len(ino[f[src]].data)),
                  !.mtime = 0]]

\* restoreMetadata, o naming the call that fails: chown's failure is
\* swallowed, chmod's and chtimes' end the function.
restoreMetadata(rec, info, o) ==
    [rec EXCEPT !.owner = IF o = "chown" THEN @ ELSE info.owner,
                !.mode = IF o = "chmod" THEN @ ELSE info.mode,
                !.mtime = IF o \in {"chmod", "chtimes"} THEN @ ELSE info.mtime]

\* os.Lstat(dst).
Capture ==
    /\ UNCHANGED histVars
    /\ pc = "dedupFile"
    /\ \/ /\ fs[call.dst] # 0
          /\ call' = [call EXCEPT !.mode = inode[fs[call.dst]].mode,
                                  !.owner = inode[fs[call.dst]].owner,
                                  !.mtime = inode[fs[call.dst]].mtime]
          /\ pc' = "Captured"
          /\ UNCHANGED <<fs, inode, stats, result, faults>>
       \/ /\ Failing(fs[call.dst] = 0)
          /\ ReturnError("stat dst", fs, inode)
          /\ UNCHANGED call
    /\ UNCHANGED <<targetSet, dryRun, groups, todo, run, start, prev, listed, linux, exitCode, log>>

\* Step 1: os.Rename(dst, tmpPath).
Displace ==
    /\ UNCHANGED histVars
    /\ pc = "Captured"
    /\ LET r == Rename(fs, call.dst, tmpPath(call.dst))
       IN  \/ /\ r.ok
              /\ fs' = r.fs
              /\ inode' = Collect(r.fs, inode)
              /\ pc' = "Displaced"
              /\ UNCHANGED <<stats, result, faults>>
           \/ /\ Failing(~r.ok)
              /\ ReturnError("rename to tmp", fs, inode)
    /\ UNCHANGED <<targetSet, dryRun, groups, todo, call, run, start, prev, listed, linux, exitCode, log>>

\* Step 2: reflinkCopy(src, dst, mode), and the rollback when it fails.
Reflink ==
    /\ UNCHANGED histVars
    /\ pc = "Displaced"
    /\ LET tmp == tmpPath(call.dst)
       IN  \/ \* open source or create destination fails: no dst was made
              /\ Failing(fs[call.src] = 0)
              /\ ReturnError("reflink copy", rollback(fs, call.dst, tmp), inode)
           \/ \E perm \in {call.mode, 0} :
                LET o == OpenTrunc(fs, inode, call.dst, perm)
                IN  /\ fs[call.src] # 0
                    /\ \/ \* the ioctl fails, dst is left empty
                          /\ Failing(FALSE)
                          /\ ReturnError("reflink copy", rollback(o.fs, call.dst, tmp), o.inode)
                       \/ \* the clone shares src's extents
                          /\ fs' = o.fs
                          /\ inode' = Ficlone(o.fs, o.inode, call.src, call.dst, 0)
                          /\ pc' = "Reflinked"
                          /\ UNCHANGED <<stats, result, faults>>
                       \/ \* the file system copies instead of sharing
                          /\ Failing(FALSE)
                          /\ fs' = o.fs
                          /\ inode' = Ficlone(o.fs, o.inode, call.src, call.dst,
                                              NewPhys(o.inode, groups))
                          /\ pc' = "Reflinked"
                          /\ UNCHANGED <<stats, result>>
    /\ UNCHANGED <<targetSet, dryRun, groups, todo, call, run, start, prev, listed, linux, exitCode, log>>

\* Step 3: both extent maps are read and compared.
Verify ==
    /\ UNCHANGED histVars
    /\ pc = "Reflinked"
    /\ LET tmp == tmpPath(call.dst)
           srcExtents == getExtents(fs, inode, call.src)
           dstExtents == getExtents(fs, inode, call.dst)
       IN  \/ /\ Failing(srcExtents.err)
              /\ ReturnError("verify src extents", rollback(fs, call.dst, tmp), inode)
           \/ /\ ~srcExtents.err
              /\ Failing(dstExtents.err)
              /\ ReturnError("verify dst extents", rollback(fs, call.dst, tmp), inode)
           \/ /\ ~srcExtents.err /\ ~dstExtents.err
              /\ ~SameExtents(srcExtents.extents, dstExtents.extents)
              /\ ReturnError("extents mismatch", rollback(fs, call.dst, tmp), inode)
              /\ UNCHANGED faults
           \/ /\ ~srcExtents.err /\ ~dstExtents.err
              /\ SameExtents(srcExtents.extents, dstExtents.extents)
              /\ pc' = "Verified"
              /\ UNCHANGED <<fs, inode, stats, result, faults>>
    /\ UNCHANGED <<targetSet, dryRun, groups, todo, call, run, start, prev, listed, linux, exitCode, log>>

\* Step 4: restoreMetadata(dst, dstInfo); its error is only logged.
Restore ==
    /\ UNCHANGED histVars
    /\ pc = "Verified"
    /\ \E o \in {"ok", "chown", "chmod", "chtimes"} :
         /\ o # "ok" => faults < MaxFaults
         /\ faults' = IF o = "ok" THEN faults ELSE faults + 1
         /\ inode' = [inode EXCEPT ![fs[call.dst]] = restoreMetadata(@, call, o)]
    /\ pc' = "Restored"
    /\ UNCHANGED <<fs, targetSet, dryRun, groups, stats, todo, call, result, run, start, prev, listed, linux, exitCode, log>>

\* Step 5: os.Remove(tmpPath), return nil; processFile counts the dedup.
Commit ==
    /\ UNCHANGED histVars
    /\ pc = "Restored"
    /\ fs' = Remove(fs, tmpPath(call.dst))
    /\ inode' = Collect(fs', inode)
    /\ result' = "ok"
    /\ stats' = [stats EXCEPT !.BytesSaved = @ + call.size, !.FilesDeduped = @ + 1]
    /\ pc' = "walk"
    /\ UNCHANGED <<targetSet, dryRun, groups, todo, call, faults, run, start, prev, listed, linux, exitCode, log>>

\* The walk is over: Dedup returns its stats.
Finish ==
    /\ UNCHANGED histVars
    /\ pc = "walk" /\ todo = {}
    /\ pc' = "finished"
    /\ prev' = IF run = 1 THEN [stats |-> stats, faults |-> faults] ELSE prev
    /\ exitCode' = IF walkRandom(fs, listed).err # "nil" THEN 1 ELSE 0
    /\ UNCHANGED <<fs, inode, targetSet, dryRun, groups, stats, todo, call, result,
                   faults, run, start, listed, linux, log>>

\* Dedup is called again on the resulting tree with the same targets.
SecondRun ==
    /\ UNCHANGED histVars
    /\ pc = "finished" /\ run = 1
    /\ run' = 2
    /\ groups' = [s \in FileSizes |-> <<>>]
    /\ stats' = ZeroStats
    /\ todo' = walkRandom(fs, listed).entries
    /\ start' = [fs |-> fs, inode |-> inode]
    /\ call' = NoCall
    /\ result' = "none"
    /\ pc' = "walk"
    /\ exitCode' = -1
    /\ log' = <<>>
    /\ UNCHANGED <<fs, inode, targetSet, dryRun, faults, prev, listed, linux>>

Next ==
    \/ \E q \in AllPaths :
         \/ Skip(q)
         \/ ExtentsFail(q)
         \/ NewRef(q)
         \/ AlreadyShared(q)
         \/ DryRunMatch(q)
         \/ EnterDedup(q)
    \/ Capture
    \/ Displace
    \/ Reflink
    \/ Verify
    \/ Restore
    \/ Commit
    \/ Finish
    \/ SecondRun

Spec == Init /\ [][Next]_vars

(***************************************************************************)
(* Pass 1: the SizeMap.  Go's int64 is a signed integer of IntBits bits    *)
(* here; products wrap as Go's do.                                         *)
(***************************************************************************)
MaxInt == 2 ^ (IntBits - 1) - 1

Wrap(x) == LET r == x % (2 ^ IntBits)
           IN  IF r > MaxInt THEN r - 2 ^ IntBits ELSE r

\* SizeEntry.Impact and evict's size * count.
Impact(size, count) == Wrap(size * count)

\* The sizes Add is called with: small ones, and one whose impact leaves
\* the integer range at count 2.
AddSizes == {1, 2, 3, 2 ^ (IntBits - 2)}

\* The sizes a map of capacity BigM starts with, each seen once.
FillSizes == 4 .. (BigM + 3)

Get(m, size) == IF size \in DOMAIN m THEN m[size] ELSE 0

IncrTwice(m, size) ==
    [s \in DOMAIN m \cup {size} |-> IF s = size THEN Wrap(Get(m, size) + 2) ELSE m[s]]

\* sm.m[size]++
Incr(m, size) ==
    [s \in DOMAIN m \cup {size} |-> IF s = size THEN Wrap(Get(m, size) + 1) ELSE m[s]]

evictCountNoMin(M) == M \div 10

evictCount(M) == IF M \div 10 < 1 THEN 1 ELSE M \div 10

\* What evict may delete: the first k = min(evictCount, len) entries of the
\* snapshot sorted by impact ascending.  The sort is not stable and the
\* snapshot is in map order, so among equal impacts any may come first:
\* every entry below the k-th smallest impact goes, and of those at it, as
\* many as still fit.
evictChoices(m, M) ==
    LET k == Min2(evictCount(M), Cardinality(DOMAIN m))
        below(v) == {s \in DOMAIN m : Impact(s, m[s]) < v}
        upTo(v) == {s \in DOMAIN m : Impact(s, m[s]) <= v}
        cut == {Impact(s, m[s]) : s \in {t \in DOMAIN m :
                   /\ Cardinality(below(Impact(t, m[t]))) < k
                   /\ Cardinality(upTo(Impact(t, m[t]))) >= k}}
    IN  IF k = 0 THEN {{}}
        ELSE UNION {{below(v) \cup T : T \in
                        {U \in SUBSET (upTo(v) \ below(v)) :
                            Cardinality(U) = k - Cardinality(below(v))}} : v \in cut}

Delete(m, D) == [s \in DOMAIN m \ D |-> m[s]]

\* TopN's candidates, and the lists sort.Slice may leave: every ordering of
\* them in which impact never increases.
Candidates(m) == {s \in DOMAIN m : m[s] >= 2}

Orderings(S) ==
    {o \in [1 .. Cardinality(S) -> S] : \A i, j \in 1 .. Cardinality(S) : i # j => o[i] # o[j]}

sortedLists(m) ==
    {[i \in DOMAIN o |-> [Size |-> o[i], Count |-> m[o[i]]]] : o \in
        {o \in Orderings(Candidates(m)) :
            \A i \in 1 .. (Cardinality(Candidates(m)) - 1) :
                ~(Impact(o[i + 1], m[o[i + 1]]) > Impact(o[i], m[o[i]]))}}

FsIdle ==
    /\ fs = [q \in AllPaths |-> 0]
    /\ inode = [n \in Inos |-> FreeInode]
    /\ targetSet = {}
    /\ dryRun = FALSE
    /\ groups = [s \in FileSizes |-> <<>>]
    /\ stats = ZeroStats
    /\ todo = {}
    /\ pc = "pass1"
    /\ call = NoCall
    /\ result = "none"
    /\ faults = 0
    /\ run = 1
    /\ start = [fs |-> fs, inode |-> inode]
    /\ prev = [stats |-> ZeroStats, faults |-> 0]
    /\ listed = TRUE
    /\ linux = TRUE
    /\ exitCode = -1
    /\ log = <<>>

\* NewSizeMap(maxSize); a map of capacity BigM has had FillSizes added.
InitHist ==
    /\ maxSize \in (1 .. MaxM) \cup {BigM}
    /\ sm = IF maxSize = BigM THEN [s \in FillSizes |-> 1] ELSE <<>>
    /\ added = [s \in AddSizes \cup FillSizes |-> IF maxSize = BigM /\ s \in FillSizes THEN 1 ELSE 0]
    /\ since = added
    /\ adds = 0
    /\ lastAdd = NoAdd
    /\ top = NoTop
    /\ FsIdle

\* SizeMap.Add(size), with the eviction it triggers.
Add(size) ==
    /\ adds < MaxAdds
    /\ adds' = adds + 1
    /\ added' = [added EXCEPT ![size] = @ + 1]
    /\ LET mid == Incr(sm, size)
       IN  IF Cardinality(DOMAIN mid) > maxSize
           THEN \E D \in evictChoices(mid, maxSize) :
                  /\ sm' = Delete(mid, D)
                  /\ lastAdd' = [size |-> size, mid |-> mid, evicted |-> D]
                  /\ since' = [s \in DOMAIN since |->
                                 IF s \in D THEN 0
                                 ELSE IF s = size THEN since[s] + 1 ELSE since[s]]
           ELSE /\ sm' = mid
                /\ lastAdd' = [size |-> size, mid |-> mid, evicted |-> {}]
                /\ since' = [since EXCEPT ![size] = @ + 1]
    /\ top' = NoTop
    /\ UNCHANGED maxSize
    /\ UNCHANGED fsVars

\* SizeMap.TopN(n).
TopN(n) ==
    /\ \E l \in sortedLists(sm) :
         top' = [n |-> n, list |-> SubSeq(l, 1, Min2(n, Len(l)))]
    /\ UNCHANGED <<sm, maxSize, adds, added, since, lastAdd>>
    /\ UNCHANGED fsVars

NextHist ==
    \/ \E size \in AddSizes : Add(size)
    \/ \E n \in 0 .. MaxN : TopN(n)

SpecHist == InitHist /\ [][NextHist]_vars

(***************************************************************************)
(* What the claims speak of.                                               *)
(***************************************************************************)
\* The sum of f over the set S.
RECURSIVE SumOver(_, _)
SumOver(S, f) ==
    IF S = {} THEN 0
    ELSE LET x == CHOOSE y \in S : TRUE IN f[x] + SumOver(S \ {x}, f)

\* The files of size s in a tree, and their distinct contents.
FilesOfSize(f, ino, s) == {q \in AllPaths : f[q] # 0 /\ Len(ino[f[q]].data) = s}
ContentsOfSize(f, ino, s) == {ino[f[q]].data : q \in FilesOfSize(f, ino, s)}

\* k - g of a size class: its files beyond one per distinct content.
Surplus(f, ino, s) ==
    Cardinality(FilesOfSize(f, ino, s)) - Cardinality(ContentsOfSize(f, ino, s))

\* A tree with no hard links and no reflinks.
Plain(f, ino) ==
    \A q, r \in AllPaths :
        (q # r /\ f[q] # 0 /\ f[r] # 0) =>
            /\ f[q] # f[r]
            /\ ~SameExtents(ino[f[q]].extents, ino[f[r]].extents)

\* The product size x count as the data model defines it: saturating.
SatImpact(size, count) == IF size * count > MaxInt THEN MaxInt ELSE size * count

\* A replace was entered for a dst whose backup path named a file.
Collision == call.dst # "" /\ call.fs[tmpPath(call.dst)] # 0

(***************************************************************************)
(* C1.  Content preservation: when a non-dry-run pass has ended, every     *)
(* path that existed when it began still exists and holds the same bytes.  *)
(***************************************************************************)
ContentPreserved ==
    (pc = "finished" /\ ~dryRun) =>
        \A q \in AllPaths :
            start.fs[q] # 0 =>
                /\ fs[q] # 0
                /\ inode[fs[q]].data = start.inode[start.fs[q]].data

(***************************************************************************)
(* C2.  Rollback invariant: when dedupFile has returned an error, dst      *)
(* names the inode it named at entry, unchanged in content and metadata,   *)
(* and no file is at dst + ".dedup-tmp" that was not there at entry.       *)
(***************************************************************************)
RollbackRestores ==
    (result \notin {"none", "ok"}) =>
        /\ fs[call.dst] # 0
        /\ fs[call.dst] = call.fs[call.dst]
        /\ inode[fs[call.dst]] = call.inode[call.fs[call.dst]]
        /\ fs[tmpPath(call.dst)] # 0 => fs[tmpPath(call.dst)] = call.fs[tmpPath(call.dst)]

(***************************************************************************)
(* C3.  Temporary-path collision: a replace entered while a file exists at *)
(* dst + ".dedup-tmp" gets no further than the displace step: it returns   *)
(* an error, the file system is as it was at entry, Errors was counted.    *)
(***************************************************************************)
CollisionAborts ==
    Collision =>
        \/ pc \in {"dedupFile", "Captured"}
        \/ /\ pc \in {"walk", "finished"}
           /\ result \in {"none", "stat dst", "rename to tmp"}
           /\ fs = call.fs
           /\ inode = call.inode
           /\ stats.Errors > 0

(***************************************************************************)
(* C4.  Idempotence: in a pass run after a first non-dry-run pass that had *)
(* no error and no failed operation, nothing in the file system changes    *)
(* and FilesDeduped and BytesSaved stay 0.                                 *)
(***************************************************************************)
SecondRunIdle ==
    (run = 2 /\ ~dryRun /\ prev.stats.Errors = 0 /\ faults = 0) =>
        /\ pc \in {"walk", "finished"}
        /\ fs = start.fs
        /\ inode = start.inode
        /\ stats.FilesDeduped = 0
        /\ stats.BytesSaved = 0

(***************************************************************************)
(* C5.  Dry-run purity: under dryRun the paths and every file's inode,     *)
(* content, extents and metadata stay as they were when the pass began and *)
(* dedupFile is never entered; yet when the pass ends without a failed     *)
(* operation (on Linux, the root listed, every call succeeding), every     *)
(* file                                                                    *)
(* beyond one per distinct content was counted, as                         *)
(* deduped or already sharing, and in a tree without hard links and        *)
(* reflinks all of them as deduped, with their sizes in BytesSaved.        *)
(***************************************************************************)
DryRunPure ==
    dryRun =>
        /\ fs = start.fs
        /\ inode = start.inode
        /\ pc \in {"walk", "finished"}
        /\ call = NoCall
        /\ result = "none"
        /\ (pc = "finished" /\ faults = 0 /\ listed /\ linux) =>
              /\ stats.FilesDeduped + stats.AlreadyDeduped =
                    SumOver(targetSet, [s \in targetSet |-> Surplus(fs, inode, s)])
              /\ stats.BytesSaved <= SumOver(targetSet, [s \in targetSet |-> s * Surplus(fs, inode, s)])
              /\ Plain(fs, inode) =>
                    /\ stats.FilesDeduped = SumOver(targetSet, [s \in targetSet |-> Surplus(fs, inode, s)])
                    /\ stats.BytesSaved =
                          SumOver(targetSet, [s \in targetSet |-> s * Surplus(fs, inode, s)])

\* A dry run that ended having counted two tier-3 matches of 3 bytes each.
DryRunCounted ==
    /\ dryRun /\ pc = "finished" /\ faults = 0 /\ listed /\ linux
    /\ Plain(fs, inode)
    /\ stats.FilesDeduped = 2
    /\ stats.BytesSaved = 6

(***************************************************************************)
(* C6.  Extent invariant after success: when dedupFile has returned nil,   *)
(* src and dst exist with equivalent extent lists and dst holds the bytes  *)
(* it held at entry.                                                       *)
(***************************************************************************)
ExtentsAfterSuccess ==
    result = "ok" =>
        /\ fs[call.src] # 0
        /\ fs[call.dst] # 0
        /\ SameExtents(inode[fs[call.src]].extents, inode[fs[call.dst]].extents)
        /\ inode[fs[call.dst]].data = call.inode[call.fs[call.dst]].data

(***************************************************************************)
(* C7.  Histogram bound: for capacity M >= 1, after every Add the map      *)
(* holds at most M sizes and every stored count is at least 1.             *)
(***************************************************************************)
HistogramBound ==
    (pc = "pass1" /\ maxSize >= 1) =>
        /\ Cardinality(DOMAIN sm) <= maxSize
        /\ \A s \in DOMAIN sm : sm[s] >= 1

\* An Add has just evicted and left a map of capacity 2 or more full.
EvictedToCapacity ==
    /\ pc = "pass1"
    /\ maxSize >= 2
    /\ lastAdd.evicted # {}
    /\ Cardinality(DOMAIN sm) = maxSize

(***************************************************************************)
(* C8.  Eviction exactness: an Add that evicts deletes exactly             *)
(* max(floor(M/10), 1) entries, none of them of higher impact than any     *)
(* entry that stays, and leaves the counts of those that stay.             *)
(***************************************************************************)
EvictionExact ==
    lastAdd.evicted # {} =>
        /\ Cardinality(lastAdd.evicted) =
              (IF maxSize \div 10 > 1 THEN maxSize \div 10 ELSE 1)
        /\ \A d \in lastAdd.evicted : \A s \in DOMAIN sm :
              SatImpact(d, lastAdd.mid[d]) <= SatImpact(s, lastAdd.mid[s])
        /\ \A s \in DOMAIN sm : sm[s] = lastAdd.mid[s]

(***************************************************************************)
(* C9.  TopN(n): min(n, k) entries, k the sizes stored with count >= 2;    *)
(* each returned entry has its stored count, which is >= 2; impact never   *)
(* increases along the list; no omitted size with count >= 2 has a higher  *)
(* impact than a returned one.                                             *)
(***************************************************************************)
TopNResult ==
    top # NoTop =>
        /\ Len(top.list) = Min2(top.n, Cardinality(Candidates(sm)))
        /\ \A i \in 1 .. Len(top.list) :
              /\ top.list[i].Count >= 2
              /\ top.list[i].Size \in DOMAIN sm
              /\ top.list[i].Count = sm[top.list[i].Size]
        /\ \A i \in 1 .. (Len(top.list) - 1) :
              SatImpact(top.list[i].Size, top.list[i].Count) >=
                 SatImpact(top.list[i + 1].Size, top.list[i + 1].Count)
        /\ \A s \in Candidates(sm) :
              (\A i \in 1 .. Len(top.list) : top.list[i].Size # s) =>
                 \A i \in 1 .. Len(top.list) :
                    SatImpact(s, sm[s]) <= SatImpact(top.list[i].Size, top.list[i].Count)

(***************************************************************************)
(* C10.  Dedup accounting: a non-dry-run pass without a failed operation   *)
(* over a tree without hard links and reflinks ends with, summed over the  *)
(* target sizes, FilesDeduped = k - g and BytesSaved = size x (k - g),     *)
(* AlreadyDeduped = 0, Errors = 0, g references per size, and files of     *)
(* equal content on equivalent extents.                                    *)
(***************************************************************************)
DedupAccounting ==
    (/\ pc = "finished" /\ run = 1 /\ ~dryRun /\ faults = 0 /\ listed /\ linux
     /\ Plain(start.fs, start.inode)) =>
        /\ stats.FilesDeduped =
              SumOver(targetSet, [s \in targetSet |-> Surplus(start.fs, start.inode, s)])
        /\ stats.BytesSaved =
              SumOver(targetSet, [s \in targetSet |-> s * Surplus(start.fs, start.inode, s)])
        /\ stats.AlreadyDeduped = 0
        /\ stats.Errors = 0
        /\ \A s \in targetSet :
              Len(groups[s]) = Cardinality(ContentsOfSize(start.fs, start.inode, s))
        /\ \A q, r \in AllPaths :
              (/\ fs[q] # 0 /\ fs[r] # 0
               /\ Len(inode[fs[q]].data) \in targetSet
               /\ inode[fs[q]].data = inode[fs[r]].data) =>
                  SameExtents(inode[fs[q]].extents, inode[fs[r]].extents)

(***************************************************************************)
(* C11.  Root failure surfaces: when the root directory cannot be listed,  *)
(* the walker returns an error to Dedup, and the driver exits with code 1. *)
(***************************************************************************)
RootFailureSurfaces ==
    (pc = "finished" /\ ~listed) => exitCode = 1

(***************************************************************************)
(* C12.  Unsupported platform is fatal: where the adapter operations       *)
(* return the unsupported error, a pass 2 that is offered a file of a      *)
(* target size ends with Dedup's error and exit code 1.                    *)
(***************************************************************************)
UnsupportedIsFatal ==
    (/\ pc = "finished" /\ ~linux /\ listed
     /\ \E s \in targetSet : FilesOfSize(start.fs, start.inode, s) # {}) =>
        exitCode = 1

(***************************************************************************)
(* C13.  Hard-link detection: of two paths that are links to one inode,    *)
(* the one walked later is matched by the same-inode tier, whatever was    *)
(* walked before and with no call failing; it is counted in                *)
(* AlreadyDeduped and dedupFile is not entered for it.                     *)
(***************************************************************************)
HardLinkDetected ==
    \A i, j \in 1 .. Len(log) :
        (/\ i < j
         /\ faults = 0
         /\ start.fs[log[i].path] # 0
         /\ start.fs[log[i].path] = start.fs[log[j].path]
         /\ log[j].ino = start.fs[log[j].path]) =>
            log[j].tier = 1

(***************************************************************************)
(* C14.  Replace state machine: a replace passes through Captured,         *)
(* Displaced, Reflinked, Verified, Restored in that order and is then      *)
(* committed; when the step taken from Displaced, Reflinked, Verified or   *)
(* Restored fails, the step leaves dst at its path with the inode,         *)
(* content and metadata it had at entry, and no backup.                    *)
(***************************************************************************)
\* The step taken fails: dedupFile returns an error, or restoreMetadata
\* does (a chown that fails is swallowed inside it).
StepFails ==
    \/ result' \notin {"none", "ok"}
    \/ /\ pc = "Verified" /\ faults' > faults
       /\ inode'[fs'[call.dst]].owner = call.owner

ReplaceOrder ==
    <<pc, pc'>> \in {<<"dedupFile", "Captured">>, <<"Captured", "Displaced">>,
                     <<"Displaced", "Reflinked">>, <<"Reflinked", "Verified">>,
                     <<"Verified", "Restored">>, <<"Restored", "walk">>}

ReplaceStateMachine ==
    [][(pc \in {"dedupFile", "Captured", "Displaced", "Reflinked", "Verified", "Restored"}) =>
          /\ ~StepFails => ReplaceOrder
          /\ (StepFails /\ pc \notin {"dedupFile", "Captured"}) =>
                /\ fs'[call.dst] # 0
                /\ fs'[call.dst] = call.fs[call.dst]
                /\ inode'[fs'[call.dst]] = call.inode[call.fs[call.dst]]
                /\ fs'[tmpPath(call.dst)] = 0]_vars

(***************************************************************************)
(* C15.  Shortest-path reference: the path of every FileRef is the         *)
(* shortest of the paths walked so far that founded its content group or   *)
(* were matched to it at any tier, and the first walked of that length.    *)
(***************************************************************************)
\* The calls that founded or matched reference k of size s.
Members(s, k) == {i \in 1 .. Len(log) : log[i].size = s /\ log[i].idx = k}

ShortestPathRef ==
    \A s \in FileSizes : \A k \in 1 .. Len(groups[s]) :
        /\ \A i \in Members(s, k) : Len(groups[s][k].path) <= Len(log[i].path)
        /\ \E i \in Members(s, k) :
              /\ log[i].path = groups[s][k].path
              /\ \A j \in Members(s, k) : j < i => Len(log[j].path) > Len(log[i].path)

(***************************************************************************)
(* C16.  Distinct content groups: no two FileRefs of one size name files   *)
(* of identical byte content; a candidate became a reference only when it  *)
(* differed in content from every reference of its size.                   *)
(***************************************************************************)
DistinctGroups ==
    \A s \in FileSizes : \A i, j \in 1 .. Len(groups[s]) :
        (/\ i < j
         /\ fs[groups[s][i].path] # 0
         /\ fs[groups[s][j].path] # 0) =>
            inode[fs[groups[s][i].path]].data # inode[fs[groups[s][j].path]].data

(***************************************************************************)
(* C17.  Saturating impact: the impact computed for a stored entry is      *)
(* size x count saturated at the largest integer; an entry whose true      *)
(* product exceeds the range is not evicted while an entry of smaller true *)
(* impact stays, and it comes first in TopN's list.                        *)
(***************************************************************************)
Overflows(size, count) == size * count > MaxInt

ImpactSaturates ==
    /\ \A s \in DOMAIN sm : Impact(s, sm[s]) = SatImpact(s, sm[s])
    /\ \A d \in lastAdd.evicted : \A s \in DOMAIN sm :
          Overflows(d, lastAdd.mid[d]) => ~(s * lastAdd.mid[s] < d * lastAdd.mid[d])
    /\ (top # NoTop /\ top.n >= 1 /\ \E s \in Candidates(sm) : Overflows(s, sm[s])) =>
          Overflows(top.list[1].Size, top.list[1].Count)

(***************************************************************************)
(* C18.  Interruption safety: after every step of a replace of dst, a file *)
(* with the bytes dst had at entry exists at dst or at dst + ".dedup-tmp", *)
(* and the only path that exists now and did not when the pass began is    *)
(* that one backup.                                                        *)
(***************************************************************************)
InReplace ==
    \/ pc \in {"Captured", "Displaced", "Reflinked", "Verified", "Restored"}
    \/ pc \in {"walk", "finished"} /\ result # "none"

InterruptionSafe ==
    InReplace =>
        /\ \E q \in {call.dst, tmpPath(call.dst)} :
              /\ fs[q] # 0
              /\ inode[fs[q]].data = call.inode[call.fs[call.dst]].data
        /\ \A q \in AllPaths :
              (fs[q] # 0 /\ start.fs[q] = 0) => q = tmpPath(call.dst)

(***************************************************************************)
(* C19.  Reference is read-only: no step of a replace renames, truncates,  *)
(* overwrites or removes the file at src; hence, whenever processFile has  *)
(* returned, every FileRef's path names a file that exists, holds the      *)
(* bytes it held when the pass began and has the extents cached in the     *)
(* FileRef.                                                                *)
(***************************************************************************)
ReferenceReadOnly ==
    [][/\ (pc \in {"dedupFile", "Captured", "Displaced", "Reflinked", "Verified", "Restored"}) =>
            /\ fs'[call.src] = fs[call.src]
            /\ fs[call.src] # 0 => inode'[fs[call.src]] = inode[fs[call.src]]
       /\ (pc' = "walk") =>
            \A s \in FileSizes : \A k \in 1 .. Len(groups'[s]) :
                /\ fs'[groups'[s][k].path] # 0
                /\ inode'[fs'[groups'[s][k].path]].data =
                      start'.inode[start'.fs[groups'[s][k].path]].data
                /\ SameExtents(inode'[fs'[groups'[s][k].path]].extents,
                               groups'[s][k].extents)]_vars

(***************************************************************************)
(* C20.  The histogram never over-counts: the count stored for a size is   *)
(* at most the number of Add calls made for it, equals the number made     *)
(* since the size was last evicted (0: not stored), and equals the number  *)
(* of all of them while no more than M distinct sizes have been added; a   *)
(* size added once is in no list TopN returns.                             *)
(***************************************************************************)
NeverOverCounts ==
    pc = "pass1" =>
        /\ \A s \in DOMAIN added :
              /\ Get(sm, s) <= added[s]
              /\ Get(sm, s) = since[s]
        /\ Cardinality({s \in DOMAIN added : added[s] > 0}) <= maxSize =>
              \A s \in DOMAIN added : Get(sm, s) = added[s]
        /\ \A i \in 1 .. Len(top.list) : added[top.list[i].Size] >= 2

\* A size was evicted, added again and then returned by TopN with the
\* count of the calls made since.
CountedSinceEviction ==
    /\ pc = "pass1"
    /\ Len(top.list) >= 1
    /\ \E s \in DOMAIN sm :
          /\ sm[s] < added[s]
          /\ top.list[1].Size = s
          /\ top.list[1].Count = since[s]

=============================================================================
